---- MODULE Spec2Model ----
(***************************************************************************)
(* Scheduling core of the CalDAV reminder bot (src/src/app.py): the        *)
(* Worker's periodic sync task and its single dynamic reminder task, both  *)
(* running on one asyncio event loop over the shared list                  *)
(* Worker.sorted_reminders.                                                *)
(*                                                                         *)
(* Time is discrete: `now` is what datetime.now() returns, and every       *)
(* coroutine step between two awaits is one atomic action.  A Reminder is  *)
(* modelled by its two compared fields (dt, url); valarm and vevent are    *)
(* declared compare=False and are only read when the message is rendered.  *)
(***************************************************************************)
EXTENDS Integers, Sequences, FiniteSets, TLC

VARIABLES now, principal, cals, DEFAULT_EVENT_REMINDER_MINUTES,
          sorted_reminders, reminder_task, tasks, sync_tasks,
          sent, lastDrain, lastSync, extraction

vars == <<now, principal, cals, DEFAULT_EVENT_REMINDER_MINUTES,
          sorted_reminders, reminder_task, tasks, sync_tasks,
          sent, lastDrain, lastSync, extraction>>

-----------------------------------------------------------------------------
(* Bounds *)

MaxTime == 2
MaxUrl == 2
MaxEvents == 2
MaxTasks == 3
SyncInterval == 2

Time == 0..MaxTime
Urls == 1..MaxUrl
TaskIds == 1..MaxTasks

\* Python's None: as a task handle (Worker.reminder_task) and as the unset
\* default reminder offset.
None == 0
NoOffset == -1
DefaultOffsets == {NoOffset, 1}

-----------------------------------------------------------------------------
(* Data model *)

\* Reminder(dt, valarm, vevent, url): order=True compares (dt, url) only.
Reminder(dt, url) == [dt |-> dt, url |-> url]

\* Reminder.from_vevent: the default reminder, `minutes` before dtstart.
from_vevent(start, minutes, url) == Reminder(start - minutes, url)

\* The generated __lt__/__le__ of the dataclass: tuple order on (dt, url).
ReminderLe(a, b) == a.dt < b.dt \/ (a.dt = b.dt /\ a.url <= b.url)

\* An Event as fetch_events leaves it: dtstart, the absolute alarm
\* times of its VALARMs (dtstart + trigger), and the canonical url.
Triggers == {<<>>, <<0>>, <<-1>>, <<-1, 0>>, <<0, -1>>}

EventOf(start, trig, url) ==
    [start |-> start,
     reminders |-> [k \in 1..Len(trig) |-> Reminder(start + trig[k], url)],
     url |-> url]

Events == {EventOf(s, t, u) : s \in 1..MaxTime, t \in Triggers, u \in Urls}

DistinctUrls(es) ==
    \A i, j \in 1..Len(es) : i # j => es[i].url # es[j].url

\* The event lists a fetch can return: at most MaxEvents events, each from
\* its own calendar object (url).
EventLists ==
    {es \in UNION {[1..n -> Events] : n \in 0..MaxEvents} : DistinctUrls(es)}

-----------------------------------------------------------------------------
(* CaldavHandler.extract_reminders *)

\* list.sort(): stable insertion of r behind every element that is <= r.
RECURSIVE SortInsert(_, _)
SortInsert(s, r) ==
    IF s = <<>> THEN <<r>>
    ELSE IF ReminderLe(s[Len(s)], r) THEN Append(s, r)
    ELSE Append(SortInsert(SubSeq(s, 1, Len(s) - 1), r), s[Len(s)])

\* An extraction that returns the reminders in the order collected.
SortReminders_Unsorted(s) == s

RECURSIVE SortReminders(_)
SortReminders(s) ==
    IF s = <<>> THEN <<>>
    ELSE SortInsert(SortReminders(SubSeq(s, 1, Len(s) - 1)), s[Len(s)])

\* An extraction that does not drop the reminders already past.
Retained_All(r, t) == r.dt >= 0

\* An extraction that drops the reminders due exactly at the clock reading.
Retained_Strict(r, t) == r.dt > t

\* The retention test `reminder.dt >= datetime.now()`.
Retained(r, t) == r.dt >= t

\* An extraction that adds the default reminder to every event.
EventReminders_AlwaysDefault(e, t, offset) ==
    (IF offset # NoOffset /\ Retained(from_vevent(e.start, offset, e.url), t)
     THEN <<from_vevent(e.start, offset, e.url)>> ELSE <<>>)
        \o SelectSeq(e.reminders, LAMBDA r : Retained(r, t))

\* The reminders one event contributes (body of the for loop).
EventReminders(e, t, offset) ==
    IF Len(e.reminders) = 0 /\ offset # NoOffset
    THEN LET r == from_vevent(e.start, offset, e.url)
         IN  IF Retained(r, t) THEN <<r>> ELSE <<>>
    ELSE SelectSeq(e.reminders, LAMBDA r : Retained(r, t))

RECURSIVE Collect(_, _, _)
Collect(es, t, offset) ==
    IF es = <<>> THEN <<>>
    ELSE Collect(SubSeq(es, 1, Len(es) - 1), t, offset)
            \o EventReminders(es[Len(es)], t, offset)

extract_reminders(es, t, offset) == SortReminders(Collect(es, t, offset))

-----------------------------------------------------------------------------
(* Tasks on the event loop *)

\* A reminder task: run_at(dt, process_reminders).  st is where the
\* coroutine stands: "sleeping" in asyncio.sleep, "sending" in the await of
\* bot.send_message, "cancelled" once cancel() was requested and the
\* CancelledError is still to be delivered, "none" when there is no such task.
\* snap, wake and done record the queue at the wake, the wake time and the
\* reminders this drain has handed to the dispatcher.  sent records the calls
\* of the dispatcher: the reminders handed over so far, the last call, and
\* whether some reminder was handed over twice.
NoTask ==
    [st |-> "none", dt |-> 0, cur |-> <<>>, snap |-> <<>>, wake |-> 0,
     done |-> <<>>]

\* A cancel() that leaves the task running.
Cancel_Ignored(ts, t) == ts

\* Task.cancel(): a finished task is left alone.
Cancel(ts, t) ==
    IF t # None /\ ts[t].st \in {"sleeping", "sending"}
    THEN [ts EXCEPT ![t].st = "cancelled"]
    ELSE ts

FreeIds(ts) == {i \in TaskIds : ts[i].st = "none"}

NewTask(ts) == CHOOSE i \in FreeIds(ts) : \A j \in FreeIds(ts) : i <= j

\* A scheduleReminderTask that arms without cancelling the task it holds.
scheduleReminderTask_NoCancel(q, rt, ts) ==
    IF Len(q) > 0
    THEN LET i == NewTask(ts)
         IN  [tasks |-> [ts EXCEPT ![i] =
                           [NoTask EXCEPT !.st = "sleeping", !.dt = q[1].dt]],
              reminder_task |-> i]
    ELSE [tasks |-> ts, reminder_task |-> rt]

\* Worker.scheduleReminderTask on queue q with handle rt and tasks ts.
scheduleReminderTask(q, rt, ts) ==
    LET c == Cancel(ts, rt)
    IN  IF Len(q) > 0
        THEN LET i == NewTask(c)
             IN  [tasks |-> [c EXCEPT ![i] =
                               [NoTask EXCEPT !.st = "sleeping", !.dt = q[1].dt]],
                  reminder_task |-> i]
        ELSE [tasks |-> c, reminder_task |-> rt]

\* The event loop can hold one more task (bound MaxTasks).
CanSchedule(q, ts) == Len(q) = 0 \/ FreeIds(ts) # {}

Range(s) == {s[i] : i \in 1..Len(s)}

\* One call of extract_reminders taken by itself: its argument, what each
\* event contributed, the list returned, and whether the call has returned.
NoExtraction == [events |-> <<>>, per |-> <<>>, out |-> <<>>, done |-> FALSE]

RemoveAt(s, i) == SubSeq(s, 1, i - 1) \o SubSeq(s, i + 1, Len(s))

-----------------------------------------------------------------------------
(* Initial state: Worker.__init__ and Worker.run *)

Init ==
    /\ now = 0
    /\ principal \in BOOLEAN
    /\ cals = FALSE
    /\ DEFAULT_EVENT_REMINDER_MINUTES \in DefaultOffsets
    /\ sorted_reminders = <<>>
    /\ reminder_task = None
    /\ tasks = [i \in TaskIds |-> NoTask]
    /\ sync_tasks = <<0>>
    /\ sent = [set |-> {}, last |-> <<>>, dup |-> FALSE]
    /\ lastDrain = [outcome |-> "none", due |-> <<>>, done |-> <<>>,
                    notdue |-> <<>>]
    /\ lastSync = [outcome |-> "none", extracted |-> <<>>, replaced |-> FALSE]
    /\ extraction = NoExtraction

\* The clock advances.
Tick ==
    /\ now < MaxTime
    /\ now' = now + 1
    /\ UNCHANGED <<extraction, principal, cals,
                   DEFAULT_EVENT_REMINDER_MINUTES,
                   sorted_reminders, reminder_task, tasks, sync_tasks,
                   sent, lastDrain, lastSync>>

-----------------------------------------------------------------------------
(* Worker.sync *)

\* sync contains no await: a pass is one atomic step of the event loop, and
\* it is modelled as reading one value of the clock.

\* A sync that ends without reaching the re-scheduling of its next run.
ScheduleNextSync_Skipped(i) ==
    sync_tasks' = RemoveAt(sync_tasks, i)

\* The finally block: one run_at(now + interval, self.sync) task replaces
\* the sync task i that is running.
ScheduleNextSync(i) ==
    sync_tasks' = Append(RemoveAt(sync_tasks, i), now + SyncInterval)

SyncReady(i) == i \in 1..Len(sync_tasks) /\ sync_tasks[i] <= now

\* fetch_calendars returns None (not logged in): logged and return.
SyncNoCalendars ==
    \E i \in 1..Len(sync_tasks) :
        /\ SyncReady(i)
        /\ cals = FALSE
        /\ principal = FALSE
        /\ ScheduleNextSync(i)
        /\ lastSync' = [outcome |-> "nocals", extracted |-> <<>>,
                        replaced |-> FALSE]
        /\ UNCHANGED <<extraction, now, principal, cals, DEFAULT_EVENT_REMINDER_MINUTES,
                       sorted_reminders, reminder_task, tasks, sent, lastDrain>>

\* A sync whose exception is raised after the extracted list was installed.
SyncException_AfterInstall ==
    \E i \in 1..Len(sync_tasks), es \in EventLists :
        /\ i \in 1..Len(sync_tasks) /\ sync_tasks[i] <= now
        /\ cals \/ principal
        /\ cals' = TRUE
        /\ sorted_reminders' =
               extract_reminders(es, now, DEFAULT_EVENT_REMINDER_MINUTES)
        /\ sync_tasks' = Append(RemoveAt(sync_tasks, i), now + SyncInterval)
        /\ lastSync' = [outcome |-> "exception", extracted |-> <<>>,
                        replaced |-> FALSE]
        /\ UNCHANGED <<extraction, now, principal, DEFAULT_EVENT_REMINDER_MINUTES,
                       reminder_task, tasks, sent, lastDrain>>

\* fetch_calendars, fetch_events or extract_reminders raises: caught and
\* logged.  The calendar list is cached if it was fetched before the raise.
SyncException ==
    \E i \in 1..Len(sync_tasks), c \in BOOLEAN :
        /\ SyncReady(i)
        /\ cals \/ principal
        /\ cals => c
        /\ cals' = c
        /\ ScheduleNextSync(i)
        /\ lastSync' = [outcome |-> "exception", extracted |-> <<>>,
                        replaced |-> FALSE]
        /\ UNCHANGED <<extraction, now, principal, DEFAULT_EVENT_REMINDER_MINUTES,
                       sorted_reminders, reminder_task, tasks, sent, lastDrain>>

\* The pass fetches the event list es.
SyncFetched ==
    \E i \in 1..Len(sync_tasks), es \in EventLists :
        LET new == extract_reminders(es, now, DEFAULT_EVENT_REMINDER_MINUTES)
            replace == Len(es) > 0 /\ new # sorted_reminders
            s == scheduleReminderTask(new, reminder_task, tasks)
        IN  /\ SyncReady(i)
            /\ cals \/ principal
            /\ cals' = TRUE
            /\ IF replace
               THEN /\ CanSchedule(new, Cancel(tasks, reminder_task))
                    /\ sorted_reminders' = new
                    /\ tasks' = s.tasks
                    /\ reminder_task' = s.reminder_task
               ELSE UNCHANGED <<sorted_reminders, tasks, reminder_task>>
            /\ ScheduleNextSync(i)
            /\ lastSync' = [outcome |-> "fetched", extracted |-> new,
                            replaced |-> replace]
            /\ UNCHANGED <<extraction, now, principal, DEFAULT_EVENT_REMINDER_MINUTES,
                           sent, lastDrain>>

-----------------------------------------------------------------------------
(* Worker.process_reminders / Worker.process_next_reminder *)

\* A drain that keeps to the list it started with: it pops what is left of
\* its snapshot instead of the head of the live queue.
ProcessNext_Snapshot(id, rt, rec) ==
    LET q == SubSeq(rec.snap, Len(rec.done) + 1, Len(rec.snap))
    IN  IF Len(q) > 0 /\ q[1].dt <= now
        THEN /\ sorted_reminders' = Tail(q)
             /\ tasks' = [tasks EXCEPT ![id] =
                            [rec EXCEPT !.st = "sending", !.cur = <<q[1]>>,
                                        !.done = Append(@, q[1])]]
             /\ reminder_task' = rt
             /\ sent' = [set |-> sent.set \cup {q[1]},
                         last |-> <<[r |-> q[1], at |-> now]>>,
                         dup |-> sent.dup \/ q[1] \in sent.set]
             /\ UNCHANGED lastDrain
        ELSE LET q1 == IF Len(q) > 0 THEN Tail(q) ELSE q
                 s == scheduleReminderTask(q1, rt, tasks)
             IN  /\ CanSchedule(q1, Cancel(tasks, rt))
                 /\ sorted_reminders' = q1
                 /\ tasks' = [s.tasks EXCEPT ![id] = NoTask]
                 /\ reminder_task' = s.reminder_task
                 /\ lastDrain' =
                        [outcome |-> "rearmed",
                         due |-> SelectSeq(rec.snap, LAMBDA r : r.dt <= rec.wake),
                         done |-> rec.done,
                         notdue |-> IF Len(q) > 0 THEN <<q[1]>> ELSE <<>>]
                 /\ UNCHANGED sent

\* A drain that dispatches the head of the queue without the due test.
ProcessNext_NoDueTest(id, rt, rec) ==
    LET q == sorted_reminders
    IN  IF Len(q) > 0
        THEN /\ sorted_reminders' = Tail(q)
             /\ tasks' = [tasks EXCEPT ![id] =
                            [rec EXCEPT !.st = "sending", !.cur = <<q[1]>>,
                                        !.done = Append(@, q[1])]]
             /\ reminder_task' = rt
             /\ sent' = [set |-> sent.set \cup {q[1]},
                          last |-> <<[r |-> q[1], at |-> now]>>,
                          dup |-> sent.dup \/ q[1] \in sent.set]
             /\ UNCHANGED lastDrain
        ELSE LET s == scheduleReminderTask(q, rt, tasks)
             IN  /\ sorted_reminders' = q
                 /\ tasks' = [s.tasks EXCEPT ![id] = NoTask]
                 /\ reminder_task' = s.reminder_task
                 /\ lastDrain' =
                        [outcome |-> "rearmed",
                         due |-> SelectSeq(rec.snap, LAMBDA r : r.dt <= rec.wake),
                         done |-> rec.done,
                         notdue |-> <<>>]
                 /\ UNCHANGED sent

\* One turn of `while await self.process_next_reminder()` for task id whose
\* record is rec, with handle rt: pop the head; if it is due hand it to the
\* dispatcher and suspend in the send, else leave the loop and re-arm.
ProcessNext(id, rt, rec) ==
    LET q == sorted_reminders
    IN  IF Len(q) > 0 /\ q[1].dt <= now
        THEN /\ sorted_reminders' = Tail(q)
             /\ tasks' = [tasks EXCEPT ![id] =
                            [rec EXCEPT !.st = "sending", !.cur = <<q[1]>>,
                                        !.done = Append(@, q[1])]]
             /\ reminder_task' = rt
             /\ sent' = [set |-> sent.set \cup {q[1]},
                          last |-> <<[r |-> q[1], at |-> now]>>,
                          dup |-> sent.dup \/ q[1] \in sent.set]
             /\ UNCHANGED lastDrain
        ELSE LET q1 == IF Len(q) > 0 THEN Tail(q) ELSE q
                 s == scheduleReminderTask(q1, rt, tasks)
             IN  /\ CanSchedule(q1, Cancel(tasks, rt))
                 /\ sorted_reminders' = q1
                 /\ tasks' = [s.tasks EXCEPT ![id] = NoTask]
                 /\ reminder_task' = s.reminder_task
                 /\ lastDrain' =
                        [outcome |-> "rearmed",
                         due |-> SelectSeq(rec.snap, LAMBDA r : r.dt <= rec.wake),
                         done |-> rec.done,
                         notdue |-> IF Len(q) > 0 THEN <<q[1]>> ELSE <<>>]
                 /\ UNCHANGED sent

\* run_at: the sleep of task id is over and process_reminders starts.
TimerFire ==
    \E id \in TaskIds :
        /\ tasks[id].st = "sleeping"
        /\ tasks[id].dt <= now
        /\ ProcessNext(id, None,
                       [tasks[id] EXCEPT !.snap = sorted_reminders, !.wake = now])
        /\ UNCHANGED <<extraction, now, principal, cals, DEFAULT_EVENT_REMINDER_MINUTES,
                       sync_tasks, lastSync>>

\* bot.send_message returns: process_next_reminder returns True and the
\* loop takes its next turn.
SendOk ==
    \E id \in TaskIds :
        /\ tasks[id].st = "sending"
        /\ ProcessNext(id, reminder_task, [tasks[id] EXCEPT !.cur = <<>>])
        /\ UNCHANGED <<extraction, now, principal, cals, DEFAULT_EVENT_REMINDER_MINUTES,
                       sync_tasks, lastSync>>

\* bot.send_message raises: nothing but CancelledError is caught in
\* process_reminders and run_at, so the task ends with the exception.
SendFail ==
    \E id \in TaskIds :
        /\ tasks[id].st = "sending"
        /\ tasks' = [tasks EXCEPT ![id] = NoTask]
        /\ lastDrain' =
               [outcome |-> "failed",
                due |-> SelectSeq(tasks[id].snap,
                                  LAMBDA r : r.dt <= tasks[id].wake),
                done |-> tasks[id].done,
                notdue |-> <<>>]
        /\ UNCHANGED <<extraction, now, principal, cals, DEFAULT_EVENT_REMINDER_MINUTES,
                       sorted_reminders, reminder_task, sync_tasks, sent,
                       lastSync>>

\* A cancelled task that wakes from its sleep all the same and drains.
TaskCancelled_RunsDrain ==
    \E id \in TaskIds :
        /\ tasks[id].st = "cancelled"
        /\ ProcessNext(id, None,
                       [tasks[id] EXCEPT !.snap = sorted_reminders, !.wake = now])
        /\ UNCHANGED <<extraction, now, principal, cals, DEFAULT_EVENT_REMINDER_MINUTES,
                       sync_tasks, lastSync>>

\* A cancelled task receives its CancelledError and ends (except: pass).
TaskCancelled ==
    \E id \in TaskIds :
        /\ tasks[id].st = "cancelled"
        /\ tasks' = [tasks EXCEPT ![id] = NoTask]
        /\ UNCHANGED <<extraction, now, principal, cals, DEFAULT_EVENT_REMINDER_MINUTES,
                       sorted_reminders, reminder_task, sync_tasks, sent,
                       lastDrain, lastSync>>

-----------------------------------------------------------------------------

Next ==
    \/ Tick
    \/ SyncNoCalendars
    \/ SyncException
    \/ SyncFetched
    \/ TimerFire
    \/ SendOk
    \/ SendFail
    \/ TaskCancelled

Spec == Init /\ [][Next]_vars

\* The fairness of the event loop: a ready task is run, a send returns or
\* raises, the clock advances.
FairSpec ==
    /\ Spec
    /\ WF_vars(Tick)
    /\ WF_vars(SyncNoCalendars \/ SyncException \/ SyncFetched)
    /\ WF_vars(TimerFire)
    /\ WF_vars(SendOk \/ SendFail)
    /\ WF_vars(TaskCancelled)

-----------------------------------------------------------------------------
(* CaldavHandler.extract_reminders on its own: one call on any list of
   events, at any clock reading, under any configured default offset *)

\* DEFAULT_EVENT_REMINDER_MINUTES unset, "0" (a non-empty string, so the
\* default reminder falls on the start of the event) or "1".
ExtractOffsets == {NoOffset, 0, 1}

InitExtract ==
    /\ now \in Time
    /\ principal = TRUE
    /\ cals = TRUE
    /\ DEFAULT_EVENT_REMINDER_MINUTES \in ExtractOffsets
    /\ sorted_reminders = <<>>
    /\ reminder_task = None
    /\ tasks = [i \in TaskIds |-> NoTask]
    /\ sync_tasks = <<0>>
    /\ sent = [set |-> {}, last |-> <<>>, dup |-> FALSE]
    /\ lastDrain = [outcome |-> "none", due |-> <<>>, done |-> <<>>,
                    notdue |-> <<>>]
    /\ lastSync = [outcome |-> "none", extracted |-> <<>>, replaced |-> FALSE]
    /\ extraction \in {[events |-> es, per |-> <<>>, out |-> <<>>,
                        done |-> FALSE] : es \in EventLists}

\* One call: `per` is what each turn of the for loop appended, `out` the
\* list returned.
Extract ==
    /\ ~extraction.done
    /\ extraction' =
         [extraction EXCEPT
            !.per = [k \in 1..Len(extraction.events) |->
                       EventReminders(extraction.events[k], now,
                                      DEFAULT_EVENT_REMINDER_MINUTES)],
            !.out = extract_reminders(extraction.events, now,
                                      DEFAULT_EVENT_REMINDER_MINUTES),
            !.done = TRUE]
    /\ UNCHANGED <<now, principal, cals, DEFAULT_EVENT_REMINDER_MINUTES,
                   sorted_reminders, reminder_task, tasks, sync_tasks,
                   sent, lastDrain, lastSync>>

NextExtract == Extract

ExtractSpec == InitExtract /\ [][NextExtract]_vars

-----------------------------------------------------------------------------
(* Vocabulary of the properties *)

Reminders == {Reminder(d, u) : d \in Time, u \in Urls}

Sleeping(ts) == {i \in TaskIds : ts[i].st = "sleeping"}
Draining(ts) == {i \in TaskIds : ts[i].st = "sending"}

\* The targets of the armed dispatch timers.
ArmedTargets(ts) == {ts[i].dt : i \in Sleeping(ts)}

\* Armed at the head of q, or no timer when q is empty.
HeadArmed(q, ts) ==
    /\ Cardinality(Sleeping(ts)) = (IF q = <<>> THEN 0 ELSE 1)
    /\ q # <<>> => ArmedTargets(ts) = {q[1].dt}

SortedByDt(q) == \A i, j \in 1..Len(q) : i < j => q[i].dt <= q[j].dt

Count(r, s) == Cardinality({i \in 1..Len(s) : s[i] = r})

\* This step is a pass of sync.
SyncStep == sync_tasks' # sync_tasks

\* This step ends the drain of task id: its loop is left, or a send raised.
DrainEnds(id) ==
    /\ tasks[id].st \in {"sleeping", "sending"}
    /\ tasks'[id].st = "none"

\* This step is a send of task id raising.
SendRaises(id) ==
    /\ tasks[id].st = "sending"
    /\ tasks'[id].st = "none"
    /\ lastDrain'.outcome = "failed"

-----------------------------------------------------------------------------
(* C1 *)

\* C1: a drain removes from the queue only reminders that are due: when a
\* drain that was not aborted ends, every reminder of the queue that was not
\* yet due is still in the queue, and the scheduler is armed at the head of
\* the queue (no timer if the queue is empty).
DrainKeepsNotDue ==
    [][\A id \in TaskIds :
          (DrainEnds(id) /\ lastDrain'.outcome = "rearmed") =>
             /\ \A r \in Range(sorted_reminders) :
                   r.dt > now => r \in Range(sorted_reminders')
             /\ HeadArmed(sorted_reminders', tasks')]_vars

(* C2 *)

\* C2: a send that raises does not abort the drain: the drain it belongs to
\* ends only with no due reminder left in the queue and with the scheduler
\* re-armed at the head of the queue (no timer if the queue is empty).
FailureDoesNotAbortDrain ==
    [][\A id \in TaskIds :
          SendRaises(id) =>
             /\ \A r \in Range(sorted_reminders') : r.dt > now'
             /\ HeadArmed(sorted_reminders', tasks')]_vars

(* C3 *)

\* C3: the dispatcher is invoked at most once for a reminder (dt, url).
DispatchedAtMostOnce == sent.dup = FALSE

(* C4 *)

\* The dispatcher was last invoked for r, which has left the queue.
Dispatched(r) ==
    /\ r \notin Range(sorted_reminders)
    /\ sent.last # <<>>
    /\ sent.last[1].r = r

\* The last pass of sync replaced the queue by one that does not contain r.
Superseded(r) == lastSync.replaced /\ r \notin Range(lastSync.extracted)

CatchUpInOneWake ==
    lastDrain.outcome # "none" =>
        \A r \in Range(lastDrain.due) : Count(r, lastDrain.done) = 1

(* C6 *)

\* C6: whenever no drain is in progress, the queue is sorted ascending by
\* dt, a timer is armed at the head's dt if the queue is non-empty, and no
\* timer is armed if it is empty.
QueueSortedAndHeadArmed ==
    Draining(tasks) = {} =>
        /\ SortedByDt(sorted_reminders)
        /\ HeadArmed(sorted_reminders, tasks)

(* C7 *)

\* C7: a pass of sync whose fetch and extraction succeed replaces the queue
\* by the extracted sequence and re-arms the timer if the two differ, and
\* leaves the queue and the timer unchanged if they are equal.
SyncInstallsExtracted ==
    [][(SyncStep /\ lastSync'.outcome = "fetched") =>
          IF lastSync'.extracted # sorted_reminders
          THEN /\ sorted_reminders' = lastSync'.extracted
               /\ ArmedTargets(tasks') =
                     {sorted_reminders'[i].dt : i \in {1} \cap DOMAIN sorted_reminders'}
          ELSE UNCHANGED <<sorted_reminders, tasks, reminder_task>>]_vars

(* C8 *)

\* C8: every pass of sync, whatever its outcome, leaves exactly one next run
\* of sync scheduled, one interval later; at every moment exactly one run of
\* sync is pending.
SyncAlwaysReschedules ==
    /\ [](Len(sync_tasks) = 1)
    /\ [][SyncStep => sync_tasks' = <<now + SyncInterval>>]_vars

\* A pass that found no calendar list has left the next run scheduled.
SyncRescheduledAfterNoCalendars ==
    /\ lastSync.outcome = "nocals"
    /\ sync_tasks = <<now + SyncInterval>>

(* C9 *)

\* C9: a pass of sync that raises during fetch or extraction leaves the
\* queue and the dispatch timer (its existence and its target) as they were.
SyncExceptionLeavesQueue ==
    [][(SyncStep /\ lastSync'.outcome = "exception") =>
          UNCHANGED <<sorted_reminders, tasks, reminder_task>>]_vars

\* A pass has raised while reminders were queued and the timer was armed.
SyncRaisedWhileArmed ==
    /\ lastSync.outcome = "exception"
    /\ sorted_reminders # <<>>
    /\ Sleeping(tasks) # {}
    /\ sync_tasks = <<now + SyncInterval>>

(* C10 *)

AtMostOneTimerArmed ==
    /\ Cardinality(Sleeping(tasks)) <= 1
    /\ Sleeping(tasks) \subseteq {reminder_task}

\* A re-arm has cancelled an armed timer: the cancelled timer, not yet
\* ended, and the new timer exist side by side, after a drain has re-armed
\* and a pass of sync has replaced the queue.
RearmedOverArmedTimer ==
    /\ \E i \in TaskIds : tasks[i].st = "cancelled"
    /\ Sleeping(tasks) # {}
    /\ lastDrain.outcome = "rearmed"
    /\ lastSync.replaced

(* C12 *)

\* C12: reminders are dispatched in non-decreasing dt order: within every
\* drain, also when a pass of sync replaces the queue in the middle of it,
\* and from one call of the dispatcher to the next.
DispatchOrderNonDecreasing ==
    /\ [](\A id \in TaskIds : SortedByDt(tasks[id].done))
    /\ [][(sent.last # <<>> /\ sent'.last # sent.last) =>
             sent'.last[1].r.dt >= sent.last[1].r.dt]_vars

\* A drain in flight has dispatched a reminder of its starting queue and
\* then a later one taken from the queue a pass of sync installed meanwhile.
DrainDispatchedAcrossReplacement ==
    \E id \in Draining(tasks) :
        LET d == tasks[id].done
        IN  /\ Len(d) >= 2
            /\ lastSync.replaced
            /\ d[1] \in Range(tasks[id].snap)
            /\ d[Len(d)] \notin Range(tasks[id].snap)
            /\ d[Len(d)].dt > d[1].dt

(* C13 *)

\* C13: for every list of events, clock reading and default offset, the
\* list extract_reminders returns is sorted ascending by dt.
ExtractedSortedByDt == extraction.done => SortedByDt(extraction.out)

\* A call that collected its reminders out of order and returned them sorted.
ExtractReorderedInput ==
    /\ extraction.done
    /\ Len(extraction.out) >= 2
    /\ extraction.out[1].dt < extraction.out[Len(extraction.out)].dt
    /\ ~SortedByDt(Collect(extraction.events, now,
                           DEFAULT_EVENT_REMINDER_MINUTES))

(* C14 *)

\* The default reminder of event e: its start minus the configured offset.
Synthetic(e) ==
    Reminder(e.start - DEFAULT_EVENT_REMINDER_MINUTES, e.url)

\* The explicit reminders of event e still to come.
ExplicitKept(e) == SelectSeq(e.reminders, LAMBDA r : r.dt >= now)

\* C14: an event gets a default reminder, exactly one and at start minus
\* offset, if and only if it has no explicit reminder and an offset is
\* configured; an event with explicit reminders contributes those and
\* nothing else, and with no offset configured nothing is synthesized.
DefaultReminderIffNoTrigger ==
    extraction.done =>
        \A k \in 1..Len(extraction.events) :
            LET e == extraction.events[k]
            IN  IF Len(e.reminders) = 0
                   /\ DEFAULT_EVENT_REMINDER_MINUTES # NoOffset
                THEN extraction.per[k] =
                        IF Synthetic(e).dt >= now THEN <<Synthetic(e)>>
                        ELSE <<>>
                ELSE extraction.per[k] = ExplicitKept(e)

\* One call handled an event without explicit reminders, which got the
\* default one, and an event with explicit reminders, which kept only those.
ExtractSynthesizedAndExplicit ==
    /\ extraction.done
    /\ DEFAULT_EVENT_REMINDER_MINUTES # NoOffset
    /\ \E k, j \in 1..Len(extraction.events) :
          LET e == extraction.events[k]
              f == extraction.events[j]
          IN  /\ Len(e.reminders) = 0
              /\ extraction.per[k] = <<Synthetic(e)>>
              /\ Len(f.reminders) > 0
              /\ extraction.per[j] # <<>>
              /\ Synthetic(f).dt >= now
              /\ Synthetic(f) \notin Range(extraction.per[j])

(* C15 *)

\* The candidate reminders of a list of events, before the retention test:
\* the explicit reminders of each event, or its default one.
RECURSIVE Candidates(_)
Candidates(es) ==
    IF es = <<>> THEN <<>>
    ELSE LET e == es[Len(es)]
         IN  Candidates(SubSeq(es, 1, Len(es) - 1)) \o
                (IF Len(e.reminders) = 0
                    /\ DEFAULT_EVENT_REMINDER_MINUTES # NoOffset
                 THEN <<Synthetic(e)>> ELSE e.reminders)

\* C15: the list returned holds exactly the candidate reminders with
\* dt >= now, each as many times as it is a candidate: none with dt < now,
\* and those with dt = now are kept.
ExtractKeepsExactlyNotPast ==
    extraction.done =>
        LET c == Candidates(extraction.events)
        IN  \A r \in Range(c) \cup Range(extraction.out) :
                Count(r, extraction.out) =
                    IF r.dt >= now THEN Count(r, c) ELSE 0

\* A call that kept a reminder due exactly now and dropped one already past.
ExtractKeptBoundaryDroppedPast ==
    /\ extraction.done
    /\ \E r \in Range(extraction.out) : r.dt = now
    /\ \E r \in Range(Candidates(extraction.events)) : r.dt < now

(* C20 *)

\* The reminders of s due at d, in the order of s.
DueAt(s, d) == SelectSeq(s, LAMBDA r : r.dt = d)

\* C20: the sort of the extraction is stable with respect to dt: reminders
\* that share a dt are returned in the order in which the loop collected
\* them from the events, whatever their url.
ExtractStableByDt ==
    extraction.done =>
        \A d \in -1..MaxTime :
            DueAt(extraction.out, d) =
                DueAt(Collect(extraction.events, now,
                              DEFAULT_EVENT_REMINDER_MINUTES), d)

(* C16 *)

\* A pass of sync replaces a non-empty queue by the empty one.
ReplacedByEmpty ==
    /\ SyncStep
    /\ lastSync'.replaced
    /\ sorted_reminders # <<>>
    /\ sorted_reminders' = <<>>

\* C16: when the queue, replaced by a non-empty list and its timer armed,
\* is replaced by the empty list before that timer fires, the queue is
\* empty, the timer is cancelled, no timer is armed, and the cancelled
\* timer never starts a drain.
ReplaceThenEmptyIsIdle ==
    /\ [][(ReplacedByEmpty /\ Sleeping(tasks) # {}) =>
             /\ sorted_reminders' = <<>>
             /\ Sleeping(tasks') = {}
             /\ \A i \in Sleeping(tasks) : tasks'[i].st = "cancelled"]_vars
    /\ [][\A i \in TaskIds :
             tasks[i].st = "cancelled" => tasks'[i].st # "sending"]_vars

\* The queue was replaced by a non-empty list and then by the empty one
\* with nothing dispatched in between: the timer of the first is cancelled.
IdleAfterReplaceThenEmpty ==
    /\ lastSync.replaced
    /\ lastSync.extracted = <<>>
    /\ sorted_reminders = <<>>
    /\ sent.set = {}
    /\ Sleeping(tasks) = {}
    /\ Draining(tasks) = {}
    /\ \E i \in TaskIds : tasks[i].st = "cancelled"

(* C17 *)

\* C17: cancelling is safe in every state. A pass of sync that finds no
\* timer armed leaves every existing task as it is; a cancelled task only
\* ends, and the step in which it ends pops nothing and dispatches nothing.
CancelIsSafe ==
    /\ [][(SyncStep /\ Sleeping(tasks) = {}) =>
             \A i \in TaskIds :
                 tasks[i].st # "none" => tasks'[i] = tasks[i]]_vars
    /\ [][\A i \in TaskIds :
             tasks[i].st = "cancelled" =>
                 /\ tasks'[i].st \in {"cancelled", "none"}
                 /\ tasks'[i].st = "none" =>
                        /\ sorted_reminders' = sorted_reminders
                        /\ sent' = sent]_vars

\* A cancelled timer whose sleep is over while the head of the queue is due:
\* had it run, it would have popped and dispatched.
CancelledTimerPastItsWake ==
    \E i \in TaskIds :
        /\ tasks[i].st = "cancelled"
        /\ tasks[i].dt <= now
        /\ sorted_reminders # <<>>
        /\ sorted_reminders[1].dt <= now

(* C18 *)

\* C18: at most one drain is in progress at any time: no timer wake starts
\* popping from the queue while an earlier drain still awaits a delivery.
AtMostOneDrain == Cardinality(Draining(tasks)) <= 1

(* C19 *)

\* C19: a reminder is never dispatched before its due time: at every call
\* of the dispatcher the clock reads at least the dt of the reminder.
NeverDispatchedEarly ==
    sent.last # <<>> => sent.last[1].r.dt <= sent.last[1].at

\* A drain woke late, dispatched a reminder after its due time and stopped
\* at a head not yet due.
DispatchedLateStoppedAtNotDue ==
    /\ sent.last # <<>>
    /\ sent.last[1].r.dt < sent.last[1].at
    /\ lastDrain.outcome = "rearmed"
    /\ lastDrain.notdue # <<>>
    /\ lastDrain.notdue[1].dt > sent.last[1].at

====
